---- MODULE Spec2Model ----
(***************************************************************************)
(* Stock-movement engine of the inventory manager: the product table, the  *)
(* stock_movements ledger, and the request handlers that read and write    *)
(* them (stockMovementService.recordMovement and                           *)
(* stockAlertService.recordMovementAndAlert), the alert evaluator          *)
(* (stockAlertService.checkAndAlertStockLevel), the product update path    *)
(* (productService.updateProduct), the notifications table and the socket  *)
(* server (WebSocketService).  Every storage call is one step; a handler   *)
(* is suspended between its storage calls (await), so handlers of          *)
(* different requests interleave there.                                    *)
(***************************************************************************)
EXTENDS Integers, Naturals, Sequences, FiniteSets, TLC

\* ---------------------------------------------------------------- bounds
NProcs == 2          \* request handlers that may be in flight together
MaxCalls == 2        \* calls started in one behaviour
MaxQty == 2          \* largest product quantity explored
MaxInputQty == 2     \* largest movement quantity a caller passes
SalesQty == 1        \* size s of each sale in the concurrent-sales scenario
MaxMinLevel == 10    \* largest minStockLevel explored by the alert evaluator
MaxChecks == 1       \* calls started in one behaviour of the alert and socket scenarios

Procs == 1..NProcs
SeqProcs == {1}

\* ------------------------------------------------------------ data model
\* drizzle/schema.ts: products.id is autoincrement, so the first two
\* products have ids 1 and 2; id 3 names no product.
ExistingIds == {1, 2}
InputIds == {1, 2, 3}

MovementTypes == {"purchase", "sale", "adjustment", "return", "damage"}
\* TypeScript types are erased at run time: the service can be handed a
\* string outside MovementType.
InputTypes == MovementTypes \cup {"transfer"}
InputQtys == 0..MaxInputQty

\* a product starts empty (the column default) or fully stocked; the
\* quantities in between are reached by movements
InitQtys == {0, MaxQty}

\* minStockLevel of the two products as they were created
MinStockLevelOf(id) == IF id = 1 THEN 6 ELSE 2

\* users.id of the two users, and the ids socket.io gives two sockets
Users == {1, 2}
SocketIds == {1, 2}
Roles == {"viewer", "manager", "admin"}

\* an optional field of ProductUpdateInput: left out (undefined) or given
Undef == [defined |-> FALSE, value |-> 0]
Some(v) == [defined |-> TRUE, value |-> v]

\* what checkAndAlertStockLevel hands to the socket server when no branch
\* matches: nothing
NoAlert == [event |-> "none", to |-> 0, type |-> "none", title |-> "none",
            message |-> "none", subject |-> 0, kind |-> "none",
            quantity |-> 0, minLevel |-> 0]

NoReq == [op |-> "none", productId |-> 0, movementType |-> "none", quantity |-> 0]
NoLoc == [Q |-> 0, newQuantity |-> 0, inserted |-> 0, movement |-> 0, written |-> FALSE,
          evaluated |-> FALSE, alert |-> NoAlert, logged |-> "none",
          totals |-> [totalIn |-> 0, totalOut |-> 0], allowed |-> FALSE,
          sweep |-> [listed |-> FALSE, todo |-> <<>>, checked |-> {}, failedOn |-> {},
                     silent |-> {}, sent |-> {}],
          recipients |-> {}]
NoSocket == [connected |-> FALSE, rooms |-> {}]
NoUser == [userId |-> 0, role |-> "none"]
NoErr == [kind |-> "none", current |-> 0, requested |-> 0]
Err(k) == [kind |-> k, current |-> 0, requested |-> 0]

VARIABLES
  products,   \* products table: id -> [quantity, minStockLevel]
  ledger,     \* stock_movements table; the row id is the position (autoincrement)
  pc,         \* per handler: the storage call it is about to make
  req,        \* per handler: the arguments of the call
  loc,        \* per handler: product read, newQuantity, row inserted, row returned,
              \* whether it ran the alert evaluator, the alert decided, the error logged,
              \* the totals computed, the answer of hasPermission, and of a sweep:
              \* whether findAll answered, the products still to evaluate, those
              \* evaluated, those whose evaluation threw, those evaluated with no
              \* socket server, and the alerts broadcast; the sockets an emit
              \* reached
  err,        \* per handler: the error thrown
  io,         \* websocketService.io is attached
  emitted,    \* events handed to io.emit so far
  calls,      \* number of calls started
  applied,    \* per product: quantity writes made by movements
  snap,       \* database as it was when the last sequential call started
  notifications,   \* notifications table; the row id is the position
  sockets,    \* socket.io: per socket, whether it is connected and its rooms
  connectedUsers   \* WebSocketService.connectedUsers: socket id -> entry

vars == <<products, ledger, pc, req, loc, err, io, emitted, calls, applied, snap,
          notifications, sockets, connectedUsers>>

\* ------------------------------------------------------- pure functions
recordMovementSchema(productId, movementType, quantity) ==
  /\ productId > 0
  /\ movementType \in MovementTypes
  /\ quantity > 0

\* mutant: the quantity check lets 0 through
QuantityInvalid_AllowsZero(quantity) == quantity < 0

\* recordMovement: "Validate quantity"
QuantityInvalid(quantity) == quantity <= 0

\* recordMovement: "Validate movement type"
TypeInvalid(movementType) == movementType \notin MovementTypes

\* mutant: the stock check is missing
InsufficientStock_Never(newQuantity) == FALSE

\* mutant: the stock check is off by one
InsufficientStock_OffByOne(newQuantity) == newQuantity < -1

\* recordMovement: "Validate new quantity is not negative"
InsufficientStock(newQuantity) == newQuantity < 0

\* mutant: a return is taken out of stock instead of put back
NewQuantity_ReturnOutbound(Q, movementType, quantity) ==
  CASE movementType \in {"purchase"} -> Q + quantity
    [] movementType \in {"sale", "damage", "return"} -> Q - quantity
    [] movementType = "adjustment" -> quantity
    [] OTHER -> Q

\* mutant: an adjustment is applied as a delta
NewQuantity_AdjustmentDelta(Q, movementType, quantity) ==
  CASE movementType \in {"purchase", "return", "adjustment"} -> Q + quantity
    [] movementType \in {"sale", "damage"} -> Q - quantity
    [] OTHER -> Q

\* the switch of recordMovement
NewQuantity(Q, movementType, quantity) ==
  CASE movementType \in {"purchase", "return"} -> Q + quantity
    [] movementType \in {"sale", "damage"} -> Q - quantity
    [] movementType = "adjustment" -> quantity
    [] OTHER -> Q

\* mutant: the row is written for another product
InsertData_OtherProduct(productId, movementType, quantity, newQuantity) ==
  [productId |-> productId + 1,
   movementType |-> movementType,
   quantity |-> IF movementType = "adjustment" THEN newQuantity ELSE quantity]

\* insertData of recordMovement
InsertData(productId, movementType, quantity, newQuantity) ==
  [productId |-> productId,
   movementType |-> movementType,
   quantity |-> IF movementType = "adjustment" THEN newQuantity ELSE quantity]

\* stockMovementRepository.findById: the row with that id, 0 when there is none
FindMovementById(id) == IF id \in 1..Len(ledger) THEN id ELSE 0

RowsOf(productId) == {i \in 1..Len(ledger) : ledger[i].productId = productId}

\* stockMovementRepository.findByProductId: the rows of the product
findByProductId(productId) ==
  SelectSeq(ledger, LAMBDA m : m.productId = productId)

\* mutant: an adjustment row is counted as inbound
AddMovement_AdjustmentInbound(acc, m) ==
  CASE m.movementType \in {"purchase", "return", "adjustment"} ->
         [acc EXCEPT !.totalIn = @ + m.quantity]
    [] m.movementType \in {"sale", "damage"} -> [acc EXCEPT !.totalOut = @ + m.quantity]
    [] OTHER -> acc

\* mutant: a return row is counted as outbound
AddMovement_ReturnOutbound(acc, m) ==
  CASE m.movementType \in {"purchase"} -> [acc EXCEPT !.totalIn = @ + m.quantity]
    [] m.movementType \in {"sale", "damage", "return"} ->
         [acc EXCEPT !.totalOut = @ + m.quantity]
    [] OTHER -> acc

\* getMovementTotals: the switch applied to one row
AddMovement(acc, m) ==
  CASE m.movementType \in {"purchase", "return"} -> [acc EXCEPT !.totalIn = @ + m.quantity]
    [] m.movementType \in {"sale", "damage"} -> [acc EXCEPT !.totalOut = @ + m.quantity]
    [] OTHER -> acc

\* getMovementTotals: movements.forEach over the rows, from totals of 0
RECURSIVE ForEachMovement(_, _)
ForEachMovement(movements, acc) ==
  IF movements = <<>> THEN acc
  ELSE ForEachMovement(Tail(movements), AddMovement(acc, Head(movements)))

MovementTotals(productId) ==
  ForEachMovement(findByProductId(productId), [totalIn |-> 0, totalOut |-> 0])

\* mutant: the out-of-stock branch is missing
AlertEvent_NoZeroCheck(quantity, minLevel) ==
  IF 5 * quantity < minLevel THEN "notification:stock_critical"
  ELSE IF quantity < minLevel THEN "notification:stock_low"
  ELSE "none"

\* mutant: the warning branch starts one unit too low
AlertEvent_WarnOffByOne(quantity, minLevel) ==
  IF quantity = 0 THEN "notification:stock_critical"
  ELSE IF 5 * quantity < minLevel THEN "notification:stock_critical"
  ELSE IF quantity < minLevel - 1 THEN "notification:stock_low"
  ELSE "none"

\* mutant: the warning branch includes the minimum itself
AlertEvent_WarnInclusive(quantity, minLevel) ==
  IF quantity = 0 THEN "notification:stock_critical"
  ELSE IF 5 * quantity < minLevel THEN "notification:stock_critical"
  ELSE IF quantity <= minLevel THEN "notification:stock_low"
  ELSE "none"

\* stockAlertService.checkAndAlertStockLevel, the event it emits ("none" when
\* it emits nothing).  quantity < minLevel * 0.2 is compared as 5 * quantity
\* < minLevel: the double nearest to 0.2 exceeds 1/5 by a relative 2^-54, so
\* for integers below 2^53 the rounded product minLevel * 0.2 is the double
\* nearest to minLevel / 5 and the two comparisons agree.
AlertEvent(quantity, minLevel) ==
  IF quantity = 0 THEN "notification:stock_critical"
  ELSE IF 5 * quantity < minLevel THEN "notification:stock_critical"
  ELSE IF quantity < minLevel THEN "notification:stock_low"
  ELSE "none"

\* The objects the broadcast methods of WebSocketService emit.  `to` is the
\* user whose room is addressed (0: every socket); `subject` is the product
\* or supplier id, which also stands for its name in title and message.
LowStockAlert(productId, currentQuantity, minLevel) ==
  [event |-> "notification:stock_low", to |-> 0, type |-> "stock_low",
   title |-> "Low Stock: {name}",
   message |-> "Product {name} has {quantity} units, below minimum level of {minLevel}",
   subject |-> productId, kind |-> "none",
   quantity |-> currentQuantity, minLevel |-> minLevel]

CriticalStockAlert(productId) ==
  [event |-> "notification:stock_critical", to |-> 0, type |-> "stock_critical",
   title |-> "CRITICAL: {name} Out of Stock!",
   message |-> "Product {name} is out of stock or critically low!",
   subject |-> productId, kind |-> "critical", quantity |-> 0, minLevel |-> 0]

PrivateNotification(userId, type) ==
  [event |-> "notification:private", to |-> userId, type |-> type,
   title |-> "{title}", message |-> "{message}",
   subject |-> 0, kind |-> "none", quantity |-> 0, minLevel |-> 0]

ProductUpdate(productId, quantity, action) ==
  [event |-> "product:update", to |-> 0, type |-> "none",
   title |-> "none", message |-> "none",
   subject |-> productId, kind |-> action, quantity |-> quantity, minLevel |-> 0]

SupplierUpdate(supplierId, action) ==
  [event |-> "supplier:update", to |-> 0, type |-> "none",
   title |-> "none", message |-> "none",
   subject |-> supplierId, kind |-> action, quantity |-> 0, minLevel |-> 0]

StockMovement(productId, movementType, quantity) ==
  [event |-> "stock:movement", to |-> 0, type |-> "none",
   title |-> "none", message |-> "none",
   subject |-> productId, kind |-> movementType, quantity |-> quantity, minLevel |-> 0]

AdminAlert(severity) ==
  [event |-> "alert:admin", to |-> 0, type |-> "admin_alert",
   title |-> "{title}", message |-> "{message}",
   subject |-> 0, kind |-> severity, quantity |-> 0, minLevel |-> 0]

SystemMessage ==
  [event |-> "system:message", to |-> 0, type |-> "none",
   title |-> "none", message |-> "{message}",
   subject |-> 0, kind |-> "none", quantity |-> 0, minLevel |-> 0]

\* checkAndAlertStockLevel: the broadcast method each branch calls
AlertFor(productId, quantity, minLevel) ==
  LET event == AlertEvent(quantity, minLevel) IN
    IF event = "notification:stock_critical" THEN CriticalStockAlert(productId)
    ELSE IF event = "notification:stock_low"
         THEN LowStockAlert(productId, quantity, minLevel)
         ELSE NoAlert

\* mutant: the broadcast methods do not look at this.io
NoServer_Never(ioAttached) == FALSE

\* `if (!this.io) return;`, the first statement of every broadcast method
NoServer(ioAttached) == ~ioAttached

\* WebSocketService.broadcast*: io.emit when a socket server is attached
Broadcast(payload) ==
  IF NoServer(io) THEN emitted ELSE emitted \cup {payload}

\* mutant: the catch block of the alert service rethrows
Caught_Rethrown(error) == [pc |-> "failed", err |-> Err(error), logged |-> error]

\* `catch (error) { console.error(...) }` of checkAndAlertStockLevel and
\* recordMovementAndAlert: the error is logged and the call resolves
Caught(error) == [pc |-> "done", err |-> NoErr, logged |-> error]

\* ---------------------------------------------------------------- state
Init ==
  /\ \E q0 \in [ExistingIds -> InitQtys] :
       products = [id \in ExistingIds |->
                     [quantity |-> q0[id], minStockLevel |-> MinStockLevelOf(id)]]
  /\ ledger = <<>>
  /\ pc = [p \in Procs |-> "idle"]
  /\ req = [p \in Procs |-> NoReq]
  /\ loc = [p \in Procs |-> NoLoc]
  /\ err = [p \in Procs |-> NoErr]
  /\ io = FALSE
  /\ emitted = {}
  /\ calls = 0
  /\ applied = [id \in ExistingIds |-> 0]
  /\ snap = [products |-> products, ledger |-> ledger]
  /\ notifications = <<>>
  /\ sockets = [s \in SocketIds |-> NoSocket]
  /\ connectedUsers = [s \in SocketIds |-> NoUser]

\* WebSocketService.initialize
Initialize ==
  /\ ~io
  /\ io' = TRUE
  /\ UNCHANGED <<products, ledger, pc, req, loc, err, emitted, calls, applied, snap, notifications, sockets, connectedUsers>>

\* ------------------------------------------- stockMovementService.recordMovement
\* the call itself: nothing is read or written before the first await
Call(p, productId, movementType, quantity) ==
  /\ pc[p] = "idle"
  /\ calls < MaxCalls
  /\ pc' = [pc EXCEPT ![p] = "rm_find"]
  /\ req' = [req EXCEPT ![p] = [op |-> "recordMovement", productId |-> productId,
                                movementType |-> movementType, quantity |-> quantity]]
  /\ loc' = [loc EXCEPT ![p] = NoLoc]
  /\ err' = [err EXCEPT ![p] = NoErr]
  /\ calls' = calls + 1
  /\ UNCHANGED <<products, ledger, io, emitted, applied, notifications, sockets, connectedUsers>>

\* stockMovementRouter.record with an input recordMovementSchema rejects:
\* the service is never called
RouterReject(p, productId, movementType, quantity) ==
  /\ pc[p] = "idle"
  /\ calls < MaxCalls
  /\ ~recordMovementSchema(productId, movementType, quantity)
  /\ pc' = [pc EXCEPT ![p] = "failed"]
  /\ req' = [req EXCEPT ![p] = [op |-> "router.record", productId |-> productId,
                                movementType |-> movementType, quantity |-> quantity]]
  /\ loc' = [loc EXCEPT ![p] = NoLoc]
  /\ err' = [err EXCEPT ![p] = Err("BadRequest")]
  /\ calls' = calls + 1
  /\ UNCHANGED <<products, ledger, io, emitted, applied, notifications, sockets, connectedUsers>>

\* productRepository.findById, then the validation and the switch, which run
\* without suspension once the product is read
RM_FindProduct(p) ==
  /\ pc[p] = "rm_find"
  /\ LET d == req[p] IN
       IF d.productId \notin DOMAIN products
       THEN /\ pc' = [pc EXCEPT ![p] = "failed"]
            /\ err' = [err EXCEPT ![p] = Err("NotFound")]
            /\ loc' = loc
       ELSE IF QuantityInvalid(d.quantity)
       THEN /\ pc' = [pc EXCEPT ![p] = "failed"]
            /\ err' = [err EXCEPT ![p] = Err("InvalidArgument")]
            /\ loc' = loc
       ELSE IF TypeInvalid(d.movementType)
       THEN /\ pc' = [pc EXCEPT ![p] = "failed"]
            /\ err' = [err EXCEPT ![p] = Err("InvalidArgument")]
            /\ loc' = loc
       ELSE LET Q == products[d.productId].quantity
                newQuantity == NewQuantity(Q, d.movementType, d.quantity)
            IN IF InsufficientStock(newQuantity)
               THEN /\ pc' = [pc EXCEPT ![p] = "failed"]
                    /\ err' = [err EXCEPT ![p] = [kind |-> "InsufficientStock",
                                                  current |-> Q, requested |-> d.quantity]]
                    /\ loc' = loc
               ELSE /\ newQuantity <= MaxQty
                    /\ pc' = [pc EXCEPT ![p] = "rm_insert"]
                    /\ loc' = [loc EXCEPT ![p].Q = Q, ![p].newQuantity = newQuantity]
                    /\ err' = err
  /\ UNCHANGED <<products, ledger, req, io, emitted, calls, applied, snap, notifications, sockets, connectedUsers>>

\* stockMovementRepository.create: db.insert(stockMovements).values(data)
RM_Insert(p) ==
  /\ pc[p] = "rm_insert"
  /\ ledger' = Append(ledger, InsertData(req[p].productId, req[p].movementType,
                                          req[p].quantity, loc[p].newQuantity))
  /\ loc' = [loc EXCEPT ![p].inserted = Len(ledger) + 1]
  /\ pc' = [pc EXCEPT ![p] = "rm_readBack"]
  /\ UNCHANGED <<products, req, err, io, emitted, calls, applied, snap, notifications, sockets, connectedUsers>>

\* stockMovementRepository.create: this.findById(data.productId)
RM_ReadBack(p) ==
  /\ pc[p] = "rm_readBack"
  /\ LET created == FindMovementById(req[p].productId) IN
       IF created = 0
       THEN /\ pc' = [pc EXCEPT ![p] = "failed"]
            /\ err' = [err EXCEPT ![p] = Err("CreateFailed")]
            /\ loc' = loc
       ELSE /\ pc' = [pc EXCEPT ![p] = "rm_updFind"]
            /\ loc' = [loc EXCEPT ![p].movement = created]
            /\ err' = err
  /\ UNCHANGED <<products, ledger, req, io, emitted, calls, applied, snap, notifications, sockets, connectedUsers>>

\* productRepository.update: existing = findById(id)
RM_UpdFind(p) ==
  /\ pc[p] = "rm_updFind"
  /\ IF req[p].productId \notin DOMAIN products
     THEN /\ pc' = [pc EXCEPT ![p] = "failed"]
          /\ err' = [err EXCEPT ![p] = Err("NotFound")]
     ELSE /\ pc' = [pc EXCEPT ![p] = "rm_updWrite"]
          /\ err' = err
  /\ UNCHANGED <<products, ledger, req, loc, io, emitted, calls, applied, snap, notifications, sockets, connectedUsers>>

\* productRepository.update: db.update(products).set({quantity: newQuantity})
RM_UpdWrite(p) ==
  /\ pc[p] = "rm_updWrite"
  /\ products' = [products EXCEPT ![req[p].productId].quantity = loc[p].newQuantity]
  /\ loc' = [loc EXCEPT ![p].written = TRUE]
  /\ applied' = [applied EXCEPT ![req[p].productId] = @ + 1]
  /\ pc' = [pc EXCEPT ![p] = "rm_updRead"]
  /\ UNCHANGED <<ledger, req, err, io, emitted, calls, snap, notifications, sockets, connectedUsers>>

\* productRepository.update: updated = findById(id); recordMovement returns
\* the movement create() gave it
RM_UpdRead(p) ==
  /\ pc[p] = "rm_updRead"
  /\ IF req[p].productId \notin DOMAIN products
     THEN /\ pc' = [pc EXCEPT ![p] = "failed"]
          /\ err' = [err EXCEPT ![p] = Err("UpdateFailed")]
     ELSE /\ pc' = [pc EXCEPT ![p] = "done"]
          /\ err' = err
  /\ UNCHANGED <<products, ledger, req, loc, io, emitted, calls, applied, snap, notifications, sockets, connectedUsers>>

\* any storage call of recordMovement rejects (getDb() gives no connection,
\* or the driver fails): the error propagates to the caller
RM_StorageFail(p) ==
  /\ pc[p] \in {"rm_find", "rm_insert", "rm_readBack", "rm_updFind", "rm_updWrite", "rm_updRead"}
  /\ pc' = [pc EXCEPT ![p] = "failed"]
  /\ err' = [err EXCEPT ![p] = Err("StorageFailure")]
  /\ UNCHANGED <<products, ledger, req, loc, io, emitted, calls, applied, snap, notifications, sockets, connectedUsers>>

\* the caller has its answer; the handler is free for the next request
Return(p) ==
  /\ pc[p] \in {"done", "failed"}
  /\ pc' = [pc EXCEPT ![p] = "idle"]
  /\ req' = [req EXCEPT ![p] = NoReq]
  /\ loc' = [loc EXCEPT ![p] = NoLoc]
  /\ err' = [err EXCEPT ![p] = NoErr]
  /\ UNCHANGED <<products, ledger, io, emitted, calls, applied, notifications, sockets, connectedUsers>>

\* ------------------------------------ stockAlertService.recordMovementAndAlert
RA_Call(p, productId, movementType, quantity) ==
  /\ pc[p] = "idle"
  /\ calls < MaxCalls
  /\ pc' = [pc EXCEPT ![p] = "ra_insert"]
  /\ req' = [req EXCEPT ![p] = [op |-> "recordMovementAndAlert", productId |-> productId,
                                movementType |-> movementType, quantity |-> quantity]]
  /\ loc' = [loc EXCEPT ![p] = NoLoc]
  /\ err' = [err EXCEPT ![p] = NoErr]
  /\ calls' = calls + 1
  /\ UNCHANGED <<products, ledger, io, emitted, applied, notifications, sockets, connectedUsers>>

\* stockMovementRepository.create({productId, movementType, quantity, reason}):
\* the insert; the foreign key stock_movements.productId -> products.id makes
\* the insert fail for an unknown product, and the catch block swallows it
RA_Insert(p) ==
  /\ pc[p] = "ra_insert"
  /\ IF req[p].productId \notin DOMAIN products
     THEN /\ pc' = [pc EXCEPT ![p] = Caught("ForeignKey").pc]
          /\ err' = [err EXCEPT ![p] = Caught("ForeignKey").err]
          /\ loc' = [loc EXCEPT ![p].logged = Caught("ForeignKey").logged]
          /\ UNCHANGED ledger
     ELSE /\ ledger' = Append(ledger, [productId |-> req[p].productId,
                                       movementType |-> req[p].movementType,
                                       quantity |-> req[p].quantity])
          /\ loc' = [loc EXCEPT ![p].inserted = Len(ledger) + 1]
          /\ pc' = [pc EXCEPT ![p] = "ra_readBack"]
          /\ err' = err
  /\ UNCHANGED <<products, req, io, emitted, calls, applied, snap, notifications, sockets, connectedUsers>>

\* stockMovementRepository.create: this.findById(data.productId); its throw
\* is caught by recordMovementAndAlert
RA_ReadBack(p) ==
  /\ pc[p] = "ra_readBack"
  /\ LET created == FindMovementById(req[p].productId) IN
       IF created = 0
       THEN /\ pc' = [pc EXCEPT ![p] = Caught("CreateFailed").pc]
            /\ err' = [err EXCEPT ![p] = Caught("CreateFailed").err]
            /\ loc' = [loc EXCEPT ![p].logged = Caught("CreateFailed").logged]
       ELSE /\ pc' = [pc EXCEPT ![p] = "ra_find"]
            /\ loc' = [loc EXCEPT ![p].movement = created]
            /\ err' = err
  /\ UNCHANGED <<products, ledger, req, io, emitted, calls, applied, snap, notifications, sockets, connectedUsers>>

\* productRepository.findById(productId), then broadcastStockMovement
RA_FindProduct(p) ==
  /\ pc[p] = "ra_find"
  /\ IF req[p].productId \in DOMAIN products
     THEN /\ emitted' = Broadcast(StockMovement(req[p].productId, req[p].movementType,
                                                req[p].quantity))
          /\ pc' = [pc EXCEPT ![p] = "ra_check"]
     ELSE /\ emitted' = emitted
          /\ pc' = [pc EXCEPT ![p] = "done"]
  /\ UNCHANGED <<products, ledger, req, loc, err, io, calls, applied, snap, notifications, sockets, connectedUsers>>

\* checkAndAlertStockLevel(productId): the product read and the broadcast it
\* decides on
RA_Check(p) ==
  /\ pc[p] = "ra_check"
  /\ LET id == req[p].productId
         alert == IF id \in DOMAIN products
                  THEN AlertFor(id, products[id].quantity, products[id].minStockLevel)
                  ELSE NoAlert
     IN /\ emitted' = IF alert = NoAlert THEN emitted ELSE Broadcast(alert)
        /\ loc' = [loc EXCEPT ![p].evaluated = TRUE, ![p].alert = alert]
  /\ pc' = [pc EXCEPT ![p] = "done"]
  /\ UNCHANGED <<products, ledger, req, err, io, calls, applied, snap, notifications, sockets, connectedUsers>>

\* a storage call of recordMovementAndAlert rejects: both try/catch blocks
\* log the error and the call resolves
RA_StorageFail(p) ==
  /\ pc[p] \in {"ra_insert", "ra_readBack", "ra_find", "ra_check"}
  /\ pc' = [pc EXCEPT ![p] = Caught("StorageFailure").pc]
  /\ err' = [err EXCEPT ![p] = Caught("StorageFailure").err]
  /\ loc' = [loc EXCEPT ![p].logged = Caught("StorageFailure").logged,
                        ![p].evaluated = (pc[p] = "ra_check")]
  /\ UNCHANGED <<products, ledger, req, io, emitted, calls, applied, snap, notifications, sockets, connectedUsers>>

\* a broadcast of recordMovementAndAlert throws (io.emit fails): the catch
\* block logs it and the call resolves; nothing was emitted
RA_BroadcastFail(p) ==
  /\ ~NoServer(io)
  /\ req[p].productId \in DOMAIN products
  /\ LET id == req[p].productId
         alert == AlertFor(id, products[id].quantity, products[id].minStockLevel)
     IN \/ /\ pc[p] = "ra_find"
           /\ loc' = [loc EXCEPT ![p].logged = Caught("BroadcastFailure").logged]
        \/ /\ pc[p] = "ra_check"
           /\ alert # NoAlert
           /\ loc' = [loc EXCEPT ![p].logged = Caught("BroadcastFailure").logged,
                                 ![p].evaluated = TRUE, ![p].alert = alert]
  /\ pc' = [pc EXCEPT ![p] = Caught("BroadcastFailure").pc]
  /\ err' = [err EXCEPT ![p] = Caught("BroadcastFailure").err]
  /\ UNCHANGED <<products, ledger, req, io, emitted, calls, applied, snap, notifications, sockets, connectedUsers>>

\* ----------------------------------- stockAlertService.checkAndAlertStockLevel
Chk_Call(p, productId) ==
  /\ pc[p] = "idle"
  /\ calls < MaxCalls
  /\ pc' = [pc EXCEPT ![p] = "chk_find"]
  /\ req' = [req EXCEPT ![p] = [op |-> "checkAndAlertStockLevel", productId |-> productId,
                                movementType |-> "none", quantity |-> 0]]
  /\ loc' = [loc EXCEPT ![p] = [NoLoc EXCEPT !.evaluated = TRUE]]
  /\ err' = [err EXCEPT ![p] = NoErr]
  /\ calls' = calls + 1
  /\ UNCHANGED <<products, ledger, io, emitted, applied, notifications, sockets, connectedUsers>>

\* productRepository.findById(productId), the classification, and the
\* broadcast method the matching branch calls
Chk_Find(p) ==
  /\ pc[p] = "chk_find"
  /\ LET id == req[p].productId
         alert == IF id \in DOMAIN products
                  THEN AlertFor(id, products[id].quantity, products[id].minStockLevel)
                  ELSE NoAlert
     IN /\ emitted' = IF alert = NoAlert THEN emitted ELSE Broadcast(alert)
        /\ loc' = [loc EXCEPT ![p].alert = alert]
  /\ pc' = [pc EXCEPT ![p] = "done"]
  /\ UNCHANGED <<products, ledger, req, err, io, calls, applied, snap, notifications, sockets, connectedUsers>>

\* the product lookup rejects: caught, logged, no alert
Chk_StorageFail(p) ==
  /\ pc[p] = "chk_find"
  /\ pc' = [pc EXCEPT ![p] = Caught("StorageFailure").pc]
  /\ err' = [err EXCEPT ![p] = Caught("StorageFailure").err]
  /\ loc' = [loc EXCEPT ![p].logged = Caught("StorageFailure").logged]
  /\ UNCHANGED <<products, ledger, req, io, emitted, calls, applied, snap, notifications, sockets, connectedUsers>>

\* the broadcast of the alert throws (io.emit fails): caught, logged,
\* nothing emitted
Chk_BroadcastFail(p) ==
  /\ pc[p] = "chk_find"
  /\ ~NoServer(io)
  /\ req[p].productId \in DOMAIN products
  /\ LET id == req[p].productId
         alert == AlertFor(id, products[id].quantity, products[id].minStockLevel)
     IN /\ alert # NoAlert
        /\ loc' = [loc EXCEPT ![p].logged = Caught("BroadcastFailure").logged,
                              ![p].alert = alert]
  /\ pc' = [pc EXCEPT ![p] = Caught("BroadcastFailure").pc]
  /\ err' = [err EXCEPT ![p] = Caught("BroadcastFailure").err]
  /\ UNCHANGED <<products, ledger, req, io, emitted, calls, applied, snap, notifications, sockets, connectedUsers>>

\* -------------------------------- stockAlertService.checkAllProductsStockLevels
\* productRepository.findAll() without filter or pagination: every row
FindAll == [i \in 1..Len(products) |-> i]

\* mutant: an error while evaluating a product ends the loop
AfterError_Abort(todo) == <<>>

\* checkAndAlertStockLevel catches its own errors, so the for loop goes on
\* with the next product
AfterError(todo) == Tail(todo)

\* the interval callback of setupPeriodicChecks fires
Sw_Call(p) ==
  /\ pc[p] = "idle"
  /\ pc' = [pc EXCEPT ![p] = "sw_findAll"]
  /\ req' = [req EXCEPT ![p] = [op |-> "checkAllProductsStockLevels", productId |-> 0,
                                movementType |-> "none", quantity |-> 0]]
  /\ loc' = [loc EXCEPT ![p] = NoLoc]
  /\ err' = [err EXCEPT ![p] = NoErr]
  /\ UNCHANGED <<products, ledger, io, emitted, calls, applied, notifications, sockets, connectedUsers>>

Sw_FindAll(p) ==
  /\ pc[p] = "sw_findAll"
  /\ loc' = [loc EXCEPT ![p].sweep.listed = TRUE, ![p].sweep.todo = FindAll]
  /\ pc' = [pc EXCEPT ![p] = "sw_loop"]
  /\ UNCHANGED <<products, ledger, req, err, io, emitted, calls, applied, snap, notifications, sockets, connectedUsers>>

\* findAll rejects: caught by the outer try, logged, no product evaluated
Sw_FindAllFail(p) ==
  /\ pc[p] = "sw_findAll"
  /\ pc' = [pc EXCEPT ![p] = Caught("StorageFailure").pc]
  /\ err' = [err EXCEPT ![p] = Caught("StorageFailure").err]
  /\ loc' = [loc EXCEPT ![p].logged = Caught("StorageFailure").logged]
  /\ UNCHANGED <<products, ledger, req, io, emitted, calls, applied, snap, notifications, sockets, connectedUsers>>

\* one iteration: await this.checkAndAlertStockLevel(product.id)
Sw_Check(p) ==
  /\ pc[p] = "sw_loop"
  /\ loc[p].sweep.todo # <<>>
  /\ LET id == Head(loc[p].sweep.todo)
         alert == IF id \in DOMAIN products
                  THEN AlertFor(id, products[id].quantity, products[id].minStockLevel)
                  ELSE NoAlert
         out == alert # NoAlert /\ ~NoServer(io)
     IN /\ emitted' = IF alert = NoAlert THEN emitted ELSE Broadcast(alert)
        /\ loc' = [loc EXCEPT ![p].sweep.todo = Tail(@),
                              ![p].sweep.checked = @ \cup {id},
                              ![p].sweep.silent = IF NoServer(io) THEN @ \cup {id} ELSE @,
                              ![p].sweep.sent = IF out THEN @ \cup {alert} ELSE @]
  /\ UNCHANGED <<products, ledger, pc, req, err, io, calls, applied, snap, notifications, sockets, connectedUsers>>

\* one iteration in which the product lookup or the broadcast throws:
\* caught and logged inside checkAndAlertStockLevel
Sw_CheckFail(p) ==
  /\ pc[p] = "sw_loop"
  /\ loc[p].sweep.todo # <<>>
  /\ \E error \in {"StorageFailure", "BroadcastFailure"} :
       loc' = [loc EXCEPT ![p].sweep.todo = AfterError(@),
                          ![p].sweep.failedOn = @ \cup {Head(loc[p].sweep.todo)},
                          ![p].logged = Caught(error).logged]
  /\ UNCHANGED <<products, ledger, pc, req, err, io, emitted, calls, applied, snap, notifications, sockets, connectedUsers>>

\* the loop is over: console.log of the number of products
Sw_Done(p) ==
  /\ pc[p] = "sw_loop"
  /\ loc[p].sweep.todo = <<>>
  /\ pc' = [pc EXCEPT ![p] = "done"]
  /\ UNCHANGED <<products, ledger, req, loc, err, io, emitted, calls, applied, snap, notifications, sockets, connectedUsers>>

\* ------------------- notificationService.create{LowStock,CriticalStock}Notification
\* the row each of the two functions hands to notificationRepository.create
StockNotification(userId, type, productId) ==
  [userId |-> userId, type |-> type,
   title |-> IF type = "stock_low" THEN "Low Stock: {name}" ELSE "Critical Stock: {name}",
   productId |-> productId, read |-> "false"]

N_Call(p, userId, type, productId) ==
  /\ pc[p] = "idle"
  /\ calls < MaxCalls
  /\ pc' = [pc EXCEPT ![p] = "n_insert"]
  /\ req' = [req EXCEPT ![p] = [op |-> "createStockNotification", productId |-> productId,
                                movementType |-> type, quantity |-> userId]]
  /\ loc' = [loc EXCEPT ![p] = NoLoc]
  /\ err' = [err EXCEPT ![p] = NoErr]
  /\ calls' = calls + 1
  /\ UNCHANGED <<products, ledger, io, emitted, applied, notifications, sockets, connectedUsers>>

\* notificationRepository.create: db.insert(notifications).values(data); the
\* foreign key notifications.userId -> users.id rejects an unknown user
N_Insert(p) ==
  /\ pc[p] = "n_insert"
  /\ IF req[p].quantity \notin Users
     THEN /\ pc' = [pc EXCEPT ![p] = "failed"]
          /\ err' = [err EXCEPT ![p] = Err("ForeignKey")]
          /\ UNCHANGED <<notifications, loc>>
     ELSE /\ notifications' = Append(notifications,
                 StockNotification(req[p].quantity, req[p].movementType, req[p].productId))
          /\ loc' = [loc EXCEPT ![p].inserted = Len(notifications) + 1]
          /\ pc' = [pc EXCEPT ![p] = "n_readBack"]
          /\ err' = err
  /\ UNCHANGED <<products, ledger, req, io, emitted, calls, applied, snap, sockets, connectedUsers>>

\* notificationRepository.create: the select by userId, type and title,
\* newest first, limit 1
N_ReadBack(p) ==
  /\ pc[p] = "n_readBack"
  /\ LET data == StockNotification(req[p].quantity, req[p].movementType, req[p].productId)
         result == {i \in 1..Len(notifications) :
                      /\ notifications[i].userId = data.userId
                      /\ notifications[i].type = data.type
                      /\ notifications[i].title = data.title}
     IN IF result = {}
        THEN /\ pc' = [pc EXCEPT ![p] = "failed"]
             /\ err' = [err EXCEPT ![p] = Err("CreateFailed")]
             /\ loc' = loc
        ELSE /\ pc' = [pc EXCEPT ![p] = "done"]
             /\ err' = err
             /\ loc' = [loc EXCEPT ![p].movement =
                          CHOOSE i \in result : \A j \in result : j <= i]
  /\ UNCHANGED <<products, ledger, req, io, emitted, calls, applied, snap, notifications, sockets, connectedUsers>>

\* a storage call of notificationRepository.create rejects: the error
\* propagates to the caller
N_StorageFail(p) ==
  /\ pc[p] \in {"n_insert", "n_readBack"}
  /\ pc' = [pc EXCEPT ![p] = "failed"]
  /\ err' = [err EXCEPT ![p] = Err("StorageFailure")]
  /\ UNCHANGED <<products, ledger, req, loc, io, emitted, calls, applied, snap, notifications, sockets, connectedUsers>>

\* ------------------------------------------------ productService.updateProduct
\* the row db.update(products).set(updateData) leaves: a field is written
\* when the caller gave it
UpdateData(existing, data) ==
  [quantity |-> IF data.quantity.defined THEN data.quantity.value ELSE existing.quantity,
   minStockLevel |-> IF data.minStockLevel.defined THEN data.minStockLevel.value
                     ELSE existing.minStockLevel]

\* updateProduct: "Validate input fields".  data.other stands for the fields
\* the model's product does not carry (name, sku, unitPrice, categoryId):
\* "invalid" is an empty name or sku, a unitPrice <= 0, an unknown category
\* or a sku another product has
UpdateInvalid(data) ==
  \/ data.other = "invalid"
  \/ data.quantity.defined /\ data.quantity.value < 0
  \/ data.minStockLevel.defined /\ data.minStockLevel.value < 0

U_Call(p, id, data) ==
  /\ pc[p] = "idle"
  /\ calls < MaxCalls
  /\ pc' = [pc EXCEPT ![p] = "u_get"]
  /\ req' = [req EXCEPT ![p] = [op |-> "updateProduct", productId |-> id,
                                movementType |-> "none", quantity |-> 0, data |-> data]]
  /\ loc' = [loc EXCEPT ![p] = NoLoc]
  /\ err' = [err EXCEPT ![p] = NoErr]
  /\ calls' = calls + 1
  /\ UNCHANGED <<products, ledger, io, emitted, applied, notifications, sockets, connectedUsers>>

\* getProductById(id), then the validation of the input fields
U_Get(p) ==
  /\ pc[p] = "u_get"
  /\ IF req[p].productId \notin DOMAIN products
     THEN /\ pc' = [pc EXCEPT ![p] = "failed"]
          /\ err' = [err EXCEPT ![p] = Err("NotFound")]
     ELSE IF UpdateInvalid(req[p].data)
     THEN /\ pc' = [pc EXCEPT ![p] = "failed"]
          /\ err' = [err EXCEPT ![p] = Err("InvalidArgument")]
     ELSE /\ pc' = [pc EXCEPT ![p] = "u_updFind"]
          /\ err' = err
  /\ UNCHANGED <<products, ledger, req, loc, io, emitted, calls, applied, snap, notifications, sockets, connectedUsers>>

\* productRepository.update: existing = findById(id)
U_UpdFind(p) ==
  /\ pc[p] = "u_updFind"
  /\ IF req[p].productId \notin DOMAIN products
     THEN /\ pc' = [pc EXCEPT ![p] = "failed"]
          /\ err' = [err EXCEPT ![p] = Err("NotFound")]
     ELSE /\ pc' = [pc EXCEPT ![p] = "u_updWrite"]
          /\ err' = err
  /\ UNCHANGED <<products, ledger, req, loc, io, emitted, calls, applied, snap, notifications, sockets, connectedUsers>>

\* productRepository.update: db.update(products).set(data)
U_UpdWrite(p) ==
  /\ pc[p] = "u_updWrite"
  /\ products' = [products EXCEPT ![req[p].productId] = UpdateData(@, req[p].data)]
  /\ loc' = [loc EXCEPT ![p].written = TRUE]
  /\ pc' = [pc EXCEPT ![p] = "u_updRead"]
  /\ UNCHANGED <<ledger, req, err, io, emitted, calls, applied, snap, notifications, sockets, connectedUsers>>

\* productRepository.update: updated = findById(id)
U_UpdRead(p) ==
  /\ pc[p] = "u_updRead"
  /\ IF req[p].productId \notin DOMAIN products
     THEN /\ pc' = [pc EXCEPT ![p] = "failed"]
          /\ err' = [err EXCEPT ![p] = Err("UpdateFailed")]
     ELSE /\ pc' = [pc EXCEPT ![p] = "done"]
          /\ err' = err
  /\ UNCHANGED <<products, ledger, req, loc, io, emitted, calls, applied, snap, notifications, sockets, connectedUsers>>

\* a storage call of updateProduct rejects: the error propagates
U_StorageFail(p) ==
  /\ pc[p] \in {"u_get", "u_updFind", "u_updWrite", "u_updRead"}
  /\ pc' = [pc EXCEPT ![p] = "failed"]
  /\ err' = [err EXCEPT ![p] = Err("StorageFailure")]
  /\ UNCHANGED <<products, ledger, req, loc, io, emitted, calls, applied, snap, notifications, sockets, connectedUsers>>

\* ------------------------- notificationRouter markAsRead / markAllAsRead / delete
\* A deleted row leaves its id behind (ids are auto-increment and never
\* reused): the position keeps a row of no user and type "deleted".
DeletedRow ==
  [userId |-> 0, type |-> "deleted", title |-> "deleted", productId |-> 0, read |-> "false"]

Exists(notificationId) ==
  /\ notificationId \in 1..Len(notifications)
  /\ notifications[notificationId].type # "deleted"

\* mutant: the update flips the flag
MarkRead_Toggle(row) ==
  [row EXCEPT !.read = IF @ = "true" THEN "false" ELSE "true"]

\* .set({ read: "true" })
MarkRead(row) == [row EXCEPT !.read = "true"]

\* a request of the notification router made by the logged-in user ctx.user
NR_Call(p, op, userId, notificationId) ==
  /\ pc[p] = "idle"
  /\ op \in {"markAsRead", "markAllAsRead", "deleteNotification"}
  /\ pc' = [pc EXCEPT ![p] = CASE op = "markAsRead" -> "nr_markOne"
                                [] op = "markAllAsRead" -> "nr_markAll"
                                [] OTHER -> "nr_delSelect"]
  /\ req' = [req EXCEPT ![p] = [op |-> op, productId |-> 0, movementType |-> "none",
                                quantity |-> 0, userId |-> userId,
                                notificationId |-> notificationId]]
  /\ loc' = [loc EXCEPT ![p] = NoLoc]
  /\ err' = [err EXCEPT ![p] = NoErr]
  /\ UNCHANGED <<products, ledger, io, emitted, calls, applied, notifications, sockets, connectedUsers>>

\* notificationRepository.markAsRead: one update by id; an id that matches
\* no row updates nothing
NR_MarkAsRead(p) ==
  /\ pc[p] = "nr_markOne"
  /\ notifications' = [i \in 1..Len(notifications) |->
                         IF i = req[p].notificationId /\ Exists(i)
                         THEN MarkRead(notifications[i]) ELSE notifications[i]]
  /\ pc' = [pc EXCEPT ![p] = "done"]
  /\ UNCHANGED <<products, ledger, req, loc, err, io, emitted, calls, applied, snap, sockets, connectedUsers>>

\* notificationRepository.markAllAsRead: one update of the unread rows of
\* the calling user
NR_MarkAllAsRead(p) ==
  /\ pc[p] = "nr_markAll"
  /\ notifications' = [i \in 1..Len(notifications) |->
                         IF /\ notifications[i].userId = req[p].userId
                            /\ notifications[i].read = "false"
                         THEN MarkRead(notifications[i]) ELSE notifications[i]]
  /\ pc' = [pc EXCEPT ![p] = "done"]
  /\ UNCHANGED <<products, ledger, req, loc, err, io, emitted, calls, applied, snap, sockets, connectedUsers>>

\* notificationRepository.delete: the select by id, limit 1; the router
\* passed input.notificationId only, ctx.user is compared with nothing
NR_DeleteSelect(p) ==
  /\ pc[p] = "nr_delSelect"
  /\ IF Exists(req[p].notificationId)
     THEN /\ pc' = [pc EXCEPT ![p] = "nr_delete"]
          /\ err' = err
     ELSE /\ pc' = [pc EXCEPT ![p] = "failed"]
          /\ err' = [err EXCEPT ![p] = Err("NotFound")]
  /\ UNCHANGED <<products, ledger, req, loc, io, emitted, calls, applied, snap, notifications, sockets, connectedUsers>>

\* notificationRepository.delete: db.delete(notifications) by id
NR_Delete(p) ==
  /\ pc[p] = "nr_delete"
  /\ notifications' = [i \in 1..Len(notifications) |->
                         IF i = req[p].notificationId THEN DeletedRow
                         ELSE notifications[i]]
  /\ loc' = [loc EXCEPT ![p].written = TRUE]
  /\ pc' = [pc EXCEPT ![p] = "done"]
  /\ UNCHANGED <<products, ledger, req, err, io, emitted, calls, applied, snap, sockets, connectedUsers>>

\* a storage call of the three handlers rejects: the error propagates
NR_StorageFail(p) ==
  /\ pc[p] \in {"nr_markOne", "nr_markAll", "nr_delSelect", "nr_delete"}
  /\ pc' = [pc EXCEPT ![p] = "failed"]
  /\ err' = [err EXCEPT ![p] = Err("StorageFailure")]
  /\ UNCHANGED <<products, ledger, req, loc, io, emitted, calls, applied, snap, notifications, sockets, connectedUsers>>

\* ------------------------------------------------------------ permissionService
Permissions == {"view", "create", "edit", "delete"}
ResourceTypes == {"product", "supplier", "category", "user", "report"}

\* the users handed to the checks: none, one of each role, and one whose
\* role is not in the matrix
NoPermUser == [defined |-> FALSE, role |-> "none"]
PermUsers == {NoPermUser} \cup {[defined |-> TRUE, role |-> r] : r \in Roles \cup {"guest"}}

\* mutant: a manager may also delete
rolePermissions_ManagerDeletes(role, resourceType) ==
  CASE role = "viewer" ->
         IF resourceType = "user" THEN {} ELSE {"view"}
    [] role = "manager" ->
         IF resourceType = "user" THEN {}
         ELSE IF resourceType = "report" THEN {"view"}
         ELSE {"view", "create", "edit", "delete"}
    [] role = "admin" ->
         IF resourceType = "report" THEN {"view"}
         ELSE {"view", "create", "edit", "delete"}
    [] OTHER -> {}

\* rolePermissions[userRole]?.[resourceType] || []
rolePermissions(role, resourceType) ==
  CASE role = "viewer" ->
         IF resourceType = "user" THEN {} ELSE {"view"}
    [] role = "manager" ->
         IF resourceType = "user" THEN {}
         ELSE IF resourceType = "report" THEN {"view"}
         ELSE {"view", "create", "edit"}
    [] role = "admin" ->
         IF resourceType = "report" THEN {"view"}
         ELSE {"view", "create", "edit", "delete"}
    [] OTHER -> {}

hasPermission(user, permission, resourceType) ==
  IF ~user.defined THEN FALSE
  ELSE permission \in rolePermissions(user.role, resourceType)

\* hasPermission or requirePermission is called
P_Call(p, op, user, permission, resourceType) ==
  /\ pc[p] = "idle"
  /\ op \in {"hasPermission", "requirePermission"}
  /\ pc' = [pc EXCEPT ![p] = "p_check"]
  /\ req' = [req EXCEPT ![p] = [op |-> op, productId |-> 0, movementType |-> "none",
                                quantity |-> 0, user |-> user, permission |-> permission,
                                resourceType |-> resourceType]]
  /\ loc' = [loc EXCEPT ![p] = NoLoc]
  /\ err' = [err EXCEPT ![p] = NoErr]
  /\ UNCHANGED <<products, ledger, io, emitted, calls, applied, notifications, sockets, connectedUsers>>

\* hasPermission returns its answer
P_HasPermission(p) ==
  /\ pc[p] = "p_check"
  /\ req[p].op = "hasPermission"
  /\ loc' = [loc EXCEPT ![p].allowed =
               hasPermission(req[p].user, req[p].permission, req[p].resourceType)]
  /\ pc' = [pc EXCEPT ![p] = "done"]
  /\ UNCHANGED <<products, ledger, req, err, io, emitted, calls, applied, snap, notifications, sockets, connectedUsers>>

\* requirePermission: if (!hasPermission(...)) throw new PermissionError
P_RequirePermission(p) ==
  /\ pc[p] = "p_check"
  /\ req[p].op = "requirePermission"
  /\ IF ~hasPermission(req[p].user, req[p].permission, req[p].resourceType)
     THEN /\ pc' = [pc EXCEPT ![p] = "failed"]
          /\ err' = [err EXCEPT ![p] = Err("PermissionError")]
     ELSE /\ pc' = [pc EXCEPT ![p] = "done"]
          /\ err' = err
  /\ UNCHANGED <<products, ledger, req, loc, io, emitted, calls, applied, snap, notifications, sockets, connectedUsers>>

\* -------------------------------------- stockMovementService.getMovementTotals
\* a read-only query: it is not counted among the calls that change the store
T_Call(p, productId) ==
  /\ pc[p] = "idle"
  /\ pc' = [pc EXCEPT ![p] = "t_query"]
  /\ req' = [req EXCEPT ![p] = [op |-> "getMovementTotals", productId |-> productId,
                                movementType |-> "none", quantity |-> 0]]
  /\ loc' = [loc EXCEPT ![p] = NoLoc]
  /\ err' = [err EXCEPT ![p] = NoErr]
  /\ UNCHANGED <<products, ledger, io, emitted, calls, applied, notifications, sockets, connectedUsers>>

\* findByProductId, then the loop over the rows it returned
T_Query(p) ==
  /\ pc[p] = "t_query"
  /\ loc' = [loc EXCEPT ![p].totals = MovementTotals(req[p].productId)]
  /\ pc' = [pc EXCEPT ![p] = "done"]
  /\ UNCHANGED <<products, ledger, req, err, io, emitted, calls, applied, snap, notifications, sockets, connectedUsers>>

\* the select rejects: the error propagates
T_StorageFail(p) ==
  /\ pc[p] = "t_query"
  /\ pc' = [pc EXCEPT ![p] = "failed"]
  /\ err' = [err EXCEPT ![p] = Err("StorageFailure")]
  /\ UNCHANGED <<products, ledger, req, loc, io, emitted, calls, applied, snap, notifications, sockets, connectedUsers>>

\* ------------------------------------------------------------ WebSocketService
\* io.on("connection"): a client connects to the attached server
WS_Connect(s) ==
  /\ io
  /\ ~sockets[s].connected
  /\ sockets' = [sockets EXCEPT ![s] = [connected |-> TRUE, rooms |-> {}]]
  /\ UNCHANGED <<products, ledger, pc, req, loc, err, io, emitted, calls, applied, snap, notifications, connectedUsers>>

\* socket.on("user:join"): the registry entry of the socket is set and the
\* socket joins the room of that user
WS_UserJoin(s, userId, role) ==
  /\ sockets[s].connected
  /\ connectedUsers' = [connectedUsers EXCEPT ![s] = [userId |-> userId, role |-> role]]
  /\ sockets' = [sockets EXCEPT ![s].rooms = @ \cup {userId}]
  /\ UNCHANGED <<products, ledger, pc, req, loc, err, io, emitted, calls, applied, snap, notifications>>

\* socket.on("disconnect"): socket.io takes the socket out of its rooms and
\* the handler deletes its registry entry
WS_Disconnect(s) ==
  /\ sockets[s].connected
  /\ sockets' = [sockets EXCEPT ![s] = NoSocket]
  /\ connectedUsers' = [connectedUsers EXCEPT ![s] = NoUser]
  /\ UNCHANGED <<products, ledger, pc, req, loc, err, io, emitted, calls, applied, snap, notifications>>

\* the sockets an emit reaches: this.io.to(`user:${userId}`).emit goes to
\* the connected sockets in that user's room, this.io.emit to every
\* connected socket
Recipients(payload) ==
  IF NoServer(io) THEN {}
  ELSE IF payload.event = "notification:private"
       THEN {s \in SocketIds : sockets[s].connected /\ payload.to \in sockets[s].rooms}
       ELSE {s \in SocketIds : sockets[s].connected}

\* the body every broadcast method shares: return when no server is
\* attached, else build the object and emit it; the method has no await, so
\* it runs in one step and resolves
Emit(p, method, payload) ==
  /\ pc[p] = "idle"
  /\ calls < MaxCalls
  /\ pc' = [pc EXCEPT ![p] = "done"]
  /\ req' = [req EXCEPT ![p] = [op |-> method, productId |-> payload.subject,
                                movementType |-> "none", quantity |-> 0]]
  /\ loc' = [loc EXCEPT ![p] = [NoLoc EXCEPT !.alert = payload,
                                            !.recipients = Recipients(payload)]]
  /\ err' = [err EXCEPT ![p] = NoErr]
  /\ emitted' = Broadcast(payload)
  /\ calls' = calls + 1
  /\ UNCHANGED <<products, ledger, io, applied, notifications, sockets, connectedUsers>>

broadcastLowStockAlert(p, productId, currentQuantity, minLevel) ==
  Emit(p, "broadcastLowStockAlert", LowStockAlert(productId, currentQuantity, minLevel))

broadcastCriticalStockAlert(p, productId) ==
  Emit(p, "broadcastCriticalStockAlert", CriticalStockAlert(productId))

sendPrivateNotification(p, userId, type) ==
  Emit(p, "sendPrivateNotification", PrivateNotification(userId, type))

broadcastProductUpdate(p, productId, quantity, action) ==
  Emit(p, "broadcastProductUpdate", ProductUpdate(productId, quantity, action))

broadcastSupplierUpdate(p, supplierId, action) ==
  Emit(p, "broadcastSupplierUpdate", SupplierUpdate(supplierId, action))

broadcastStockMovement(p, productId, movementType, quantity) ==
  Emit(p, "broadcastStockMovement", StockMovement(productId, movementType, quantity))

notifyAdminsAboutCriticalEvent(p, severity) ==
  Emit(p, "notifyAdminsAboutCriticalEvent", AdminAlert(severity))

broadcastSystemMessage(p) ==
  Emit(p, "broadcastSystemMessage", SystemMessage)

\* ------------------------------------------------------- specifications
\* the storage steps of recordMovement
RMStep(p) ==
  \/ RM_FindProduct(p)
  \/ RM_Insert(p)
  \/ RM_ReadBack(p)
  \/ RM_UpdFind(p)
  \/ RM_UpdWrite(p)
  \/ RM_UpdRead(p)
  \/ RM_StorageFail(p)

\* the storage steps of recordMovementAndAlert
RAStep(p) ==
  \/ RA_Insert(p)
  \/ RA_ReadBack(p)
  \/ RA_FindProduct(p)
  \/ RA_Check(p)
  \/ RA_StorageFail(p)
  \/ RA_BroadcastFail(p)

\* the steps of checkAndAlertStockLevel
ChkStep(p) ==
  \/ Chk_Find(p)
  \/ Chk_StorageFail(p)
  \/ Chk_BroadcastFail(p)

\* the storage steps of updateProduct
UStep(p) ==
  \/ U_Get(p)
  \/ U_UpdFind(p)
  \/ U_UpdWrite(p)
  \/ U_UpdRead(p)
  \/ U_StorageFail(p)

\* the storage steps of notificationRepository.create
NStep(p) ==
  \/ N_Insert(p)
  \/ N_ReadBack(p)
  \/ N_StorageFail(p)

\* Spec: recordMovement requests served concurrently; the handlers interleave
\* at their storage calls.  The callers pass well-formed movements (rejected
\* input is explored under SeqSpec).
ConcCall(p) ==
  \E id \in ExistingIds, t \in MovementTypes, q \in 1..MaxInputQty :
    Call(p, id, t, q) /\ UNCHANGED snap

ConcReturn(p) == Return(p) /\ UNCHANGED snap

Next ==
  \/ \E p \in Procs : ConcCall(p)
  \/ \E p \in Procs : RMStep(p)
  \/ \E p \in Procs : ConcReturn(p)

Spec == Init /\ [][Next]_vars

\* SeqSpec: recordMovement calls served one after another by a single
\* handler; the database is remembered as it was when each call started
SeqCall(p) ==
  \E id \in InputIds, t \in InputTypes, q \in InputQtys :
    Call(p, id, t, q) /\ snap' = [products |-> products, ledger |-> ledger]

SeqRouterReject(p) ==
  \E id \in InputIds, t \in InputTypes, q \in InputQtys :
    RouterReject(p, id, t, q) /\ snap' = [products |-> products, ledger |-> ledger]

SeqReturn(p) == Return(p) /\ snap' = [products |-> products, ledger |-> ledger]

SeqNext ==
  \/ \E p \in SeqProcs : SeqCall(p)
  \/ \E p \in SeqProcs : SeqRouterReject(p)
  \/ \E p \in SeqProcs : RMStep(p)
  \/ \E p \in SeqProcs : SeqReturn(p)

SeqSpec == Init /\ [][SeqNext]_vars

\* AlertSpec: both entry points that record a movement, recordMovement and
\* recordMovementAndAlert, called one after another, with the socket server
\* attached at some point; the database is remembered as it was when each
\* call started
AlertRMCall(p) ==
  \E id \in ExistingIds, t \in MovementTypes, q \in 1..MaxInputQty :
    Call(p, id, t, q) /\ snap' = [products |-> products, ledger |-> ledger]

AlertRACall(p) ==
  \E id \in InputIds, t \in MovementTypes, q \in 1..MaxInputQty :
    RA_Call(p, id, t, q) /\ snap' = [products |-> products, ledger |-> ledger]

AlertNext ==
  \/ Initialize
  \/ \E p \in SeqProcs : AlertRMCall(p)
  \/ \E p \in SeqProcs : AlertRACall(p)
  \/ \E p \in SeqProcs : RMStep(p)
  \/ \E p \in SeqProcs : RAStep(p)
  \/ \E p \in SeqProcs : SeqReturn(p)

AlertSpec == Init /\ [][AlertNext]_vars

\* SalesSpec: NProcs sale requests of size SalesQty against one product whose
\* stock covers them all, served concurrently by a working store.  The stock
\* of each product came from one earlier purchase, which is in the ledger.
SalesInit ==
  /\ \E q0 \in [ExistingIds -> 1..MaxQty] :
       /\ products = [id \in ExistingIds |->
                        [quantity |-> q0[id], minStockLevel |-> MinStockLevelOf(id)]]
       /\ ledger = <<[productId |-> 1, movementType |-> "purchase", quantity |-> q0[1]],
                     [productId |-> 2, movementType |-> "purchase", quantity |-> q0[2]]>>
  /\ pc = [p \in Procs |-> "idle"]
  /\ req = [p \in Procs |-> NoReq]
  /\ loc = [p \in Procs |-> NoLoc]
  /\ err = [p \in Procs |-> NoErr]
  /\ io = FALSE
  /\ emitted = {}
  /\ calls = 0
  /\ applied = [id \in ExistingIds |-> 1]
  /\ snap = [products |-> products, ledger |-> ledger]
  /\ notifications = <<>>
  /\ sockets = [s \in SocketIds |-> NoSocket]
  /\ connectedUsers = [s \in SocketIds |-> NoUser]

SalesCall(p) ==
  \E id \in ExistingIds :
    /\ NProcs * SalesQty <= snap.products[id].quantity
    /\ \A o \in Procs : pc[o] # "idle" => req[o].productId = id
    /\ Call(p, id, "sale", SalesQty)
    /\ UNCHANGED snap

SalesStep(p) ==
  \/ RM_FindProduct(p)
  \/ RM_Insert(p)
  \/ RM_ReadBack(p)
  \/ RM_UpdFind(p)
  \/ RM_UpdWrite(p)
  \/ RM_UpdRead(p)

SalesNext ==
  \/ \E p \in Procs : SalesCall(p)
  \/ \E p \in Procs : SalesStep(p)

SalesSpec == SalesInit /\ [][SalesNext]_vars

\* EvalSpec: the alert evaluator and the two stock-notification functions,
\* called on a store whose first product holds any quantity and any
\* minStockLevel up to MaxMinLevel
EvalQtys == 0..MaxMinLevel
EvalMinLevels == 0..MaxMinLevel

EvalInit ==
  /\ \E q1 \in EvalQtys, m1 \in EvalMinLevels, q2 \in InitQtys :
       products = [id \in ExistingIds |->
                     IF id = 1
                     THEN [quantity |-> q1, minStockLevel |-> m1]
                     ELSE [quantity |-> q2, minStockLevel |-> MinStockLevelOf(id)]]
  /\ ledger = <<>>
  /\ pc = [p \in Procs |-> "idle"]
  /\ req = [p \in Procs |-> NoReq]
  /\ loc = [p \in Procs |-> NoLoc]
  /\ err = [p \in Procs |-> NoErr]
  /\ io = FALSE
  /\ emitted = {}
  /\ calls = 0
  /\ applied = [id \in ExistingIds |-> 0]
  /\ snap = [products |-> products, ledger |-> ledger]
  /\ notifications = <<>>
  /\ sockets = [s \in SocketIds |-> NoSocket]
  /\ connectedUsers = [s \in SocketIds |-> NoUser]

EvalChkCall(p) ==
  \E id \in InputIds :
    calls < MaxChecks /\ Chk_Call(p, id) /\ UNCHANGED snap

EvalNCall(p) ==
  \E u \in Users \cup {3}, t \in {"stock_low", "stock_critical"}, id \in ExistingIds :
    calls < MaxChecks /\ N_Call(p, u, t, id) /\ UNCHANGED snap

EvalNext ==
  \/ Initialize
  \/ \E p \in SeqProcs : EvalChkCall(p)
  \/ \E p \in SeqProcs : EvalNCall(p)
  \/ \E p \in SeqProcs : ChkStep(p)
  \/ \E p \in SeqProcs : NStep(p)
  \/ \E p \in SeqProcs : ConcReturn(p)

EvalSpec == EvalInit /\ [][EvalNext]_vars

\* ContainSpec: the two operations of the alert service, called with any
\* product id and movement type while storage calls and broadcasts may fail
ContainRACall(p) ==
  \E id \in InputIds, t \in MovementTypes, q \in 1..MaxInputQty :
    calls < MaxChecks /\ RA_Call(p, id, t, q) /\ UNCHANGED snap

ContainNext ==
  \/ Initialize
  \/ \E p \in SeqProcs : ContainRACall(p)
  \/ \E p \in SeqProcs : EvalChkCall(p)
  \/ \E p \in SeqProcs : RAStep(p)
  \/ \E p \in SeqProcs : ChkStep(p)
  \/ \E p \in SeqProcs : ConcReturn(p)

ContainSpec == Init /\ [][ContainNext]_vars

\* EditSpec: product updates and movements, called one after another; the
\* database is remembered as it was when each call started
UpdateQtys == {Undef} \cup {Some(v) : v \in -1..MaxQty}
UpdateMinLevels == {Undef} \cup {Some(v) : v \in {-1, 0, MaxQty}}

EditUpdCall(p) ==
  \E id \in InputIds, q \in UpdateQtys, m \in UpdateMinLevels, o \in {"valid", "invalid"} :
    /\ U_Call(p, id, [quantity |-> q, minStockLevel |-> m, other |-> o])
    /\ snap' = [products |-> products, ledger |-> ledger]

EditRMCall(p) ==
  \E id \in ExistingIds, t \in MovementTypes, q \in 1..MaxInputQty :
    Call(p, id, t, q) /\ snap' = [products |-> products, ledger |-> ledger]

EditNext ==
  \/ \E p \in SeqProcs : EditUpdCall(p)
  \/ \E p \in SeqProcs : EditRMCall(p)
  \/ \E p \in SeqProcs : UStep(p)
  \/ \E p \in SeqProcs : RMStep(p)
  \/ \E p \in SeqProcs : SeqReturn(p)

EditSpec == Init /\ [][EditNext]_vars

\* WsSpec: the socket server: clients connect, join as a user and
\* disconnect, and the broadcast methods are called one after another,
\* before and after the server is attached
WsBroadcast(p) ==
  \/ \E id \in ExistingIds :
       broadcastLowStockAlert(p, id, products[id].quantity, products[id].minStockLevel)
  \/ \E id \in ExistingIds : broadcastCriticalStockAlert(p, id)
  \/ \E u \in Users : sendPrivateNotification(p, u, "system")
  \/ \E id \in ExistingIds : broadcastProductUpdate(p, id, products[id].quantity, "updated")
  \/ broadcastSupplierUpdate(p, 1, "created")
  \/ \E id \in ExistingIds : broadcastStockMovement(p, id, "sale", 1)
  \/ \E v \in {"warning", "critical"} : notifyAdminsAboutCriticalEvent(p, v)
  \/ broadcastSystemMessage(p)

WsNext ==
  \/ Initialize
  \/ \E s \in SocketIds : WS_Connect(s)
  \/ \E s \in SocketIds, u \in Users, r \in Roles : WS_UserJoin(s, u, r)
  \/ \E s \in SocketIds : WS_Disconnect(s)
  \/ \E p \in SeqProcs : calls < MaxChecks /\ WsBroadcast(p) /\ UNCHANGED snap
  \/ \E p \in SeqProcs : ConcReturn(p)

WsSpec == Init /\ [][WsNext]_vars

\* TotalsSpec: movements recorded one after another on products that start
\* with an empty ledger, and the totals query asked in between; snap stays
\* the database the behaviour started from
TotalsRMCall(p) ==
  \E id \in ExistingIds, t \in MovementTypes, q \in 1..MaxInputQty :
    Call(p, id, t, q) /\ UNCHANGED snap

TotalsTCall(p) ==
  \E id \in InputIds : T_Call(p, id) /\ UNCHANGED snap

TStep(p) ==
  \/ T_Query(p)
  \/ T_StorageFail(p)

TotalsNext ==
  \/ \E p \in SeqProcs : TotalsRMCall(p)
  \/ \E p \in SeqProcs : TotalsTCall(p)
  \/ \E p \in SeqProcs : RMStep(p)
  \/ \E p \in SeqProcs : TStep(p)
  \/ \E p \in SeqProcs : ConcReturn(p)

TotalsSpec == Init /\ [][TotalsNext]_vars

\* NotifSpec: stock notifications are created for the users and the users
\* mark them read and delete them, one request after another
NotifIds == 1..(MaxCalls + 1)

NotifCreateCall(p) ==
  \E u \in Users, t \in {"stock_low", "stock_critical"}, id \in ExistingIds :
    N_Call(p, u, t, id) /\ UNCHANGED snap

NotifRouterCall(p) ==
  \E op \in {"markAsRead", "markAllAsRead", "deleteNotification"},
     u \in Users, n \in NotifIds :
    NR_Call(p, op, u, n) /\ UNCHANGED snap

NRStep(p) ==
  \/ NR_MarkAsRead(p)
  \/ NR_MarkAllAsRead(p)
  \/ NR_DeleteSelect(p)
  \/ NR_Delete(p)
  \/ NR_StorageFail(p)

NotifNext ==
  \/ \E p \in SeqProcs : NotifCreateCall(p)
  \/ \E p \in SeqProcs : NotifRouterCall(p)
  \/ \E p \in SeqProcs : NStep(p)
  \/ \E p \in SeqProcs : NRStep(p)
  \/ \E p \in SeqProcs : ConcReturn(p)

NotifSpec == Init /\ [][NotifNext]_vars

\* PermSpec: the permission checks applied to every user, permission and
\* resource type
PermCall(p) ==
  \E op \in {"hasPermission", "requirePermission"}, user \in PermUsers,
     permission \in Permissions, resourceType \in ResourceTypes :
    P_Call(p, op, user, permission, resourceType) /\ UNCHANGED snap

PermNext ==
  \/ \E p \in SeqProcs : PermCall(p)
  \/ \E p \in SeqProcs : P_HasPermission(p)
  \/ \E p \in SeqProcs : P_RequirePermission(p)
  \/ \E p \in SeqProcs : ConcReturn(p)

PermSpec == Init /\ [][PermNext]_vars

\* SweepSpec: products are edited directly and the sweep runs in between
SweepCall(p) == Sw_Call(p) /\ UNCHANGED snap

\* productRouter.update of the quantity alone
SweepEditCall(p) ==
  \E id \in ExistingIds, v \in 0..MaxQty :
    /\ U_Call(p, id, [quantity |-> Some(v), minStockLevel |-> Undef, other |-> "valid"])
    /\ UNCHANGED snap

SwStep(p) ==
  \/ Sw_FindAll(p)
  \/ Sw_FindAllFail(p)
  \/ Sw_Check(p)
  \/ Sw_CheckFail(p)
  \/ Sw_Done(p)

SweepNext ==
  \/ Initialize
  \/ \E p \in SeqProcs : SweepEditCall(p)
  \/ \E p \in SeqProcs : SweepCall(p)
  \/ \E p \in SeqProcs : UStep(p)
  \/ \E p \in SeqProcs : SwStep(p)
  \/ \E p \in SeqProcs : ConcReturn(p)

SweepSpec == Init /\ [][SweepNext]_vars

\* ------------------------------------------------------------ properties
Ended(p) == pc[p] \in {"done", "failed"}
IsRM(p) == req[p].op = "recordMovement"
DbUnchanged == products = snap.products /\ ledger = snap.ledger
Outbound(t) == t \in {"sale", "damage"}
Inbound(t) == t \in {"purchase", "return"}

\* C1: over any sequence of recordMovement calls run one after another (any
\* mix of the five types, accepted or rejected) on products that start at a
\* quantity >= 0, every product's stored quantity is >= 0 in every state.
C1_QuantityNonNegative ==
  \A id \in DOMAIN products : products[id].quantity >= 0

\* a second accepted movement, a sale, has just emptied a product
C1_Witness ==
  /\ pc[1] = "done" /\ IsRM(1) /\ req[1].movementType = "sale"
  /\ products[req[1].productId].quantity = 0
  /\ Len(ledger) >= 2

\* C2: a sale or damage for more than the product holds never gets past the
\* stock check: the call fails with the insufficient-stock error carrying the
\* current and the requested quantity (or with the storage error, when the
\* product lookup itself fails), and products and ledger are as they were
\* when the call started.
C2_RejectedOutboundIsNoOp ==
  \A p \in SeqProcs :
    ( /\ IsRM(p)
      /\ req[p].productId \in ExistingIds
      /\ Outbound(req[p].movementType)
      /\ req[p].quantity > snap.products[req[p].productId].quantity )
    => /\ pc[p] \in {"rm_find", "failed"}
       /\ DbUnchanged
       /\ pc[p] = "failed" =>
            \/ err[p] = [kind |-> "InsufficientStock",
                         current |-> snap.products[req[p].productId].quantity,
                         requested |-> req[p].quantity]
            \/ err[p] = Err("StorageFailure")

\* a damage of 2 was refused on a product holding 1, with a ledger that
\* already has a row
C2_Witness ==
  /\ pc[1] = "failed" /\ IsRM(1) /\ req[1].movementType = "damage"
  /\ err[1] = [kind |-> "InsufficientStock", current |-> 1, requested |-> 2]
  /\ Len(ledger) >= 1

\* C3: once a recordMovement call has ended (returned or thrown), its ledger
\* row exists exactly when its quantity write was made.
C3_InsertAndUpdateAtomic ==
  \A p \in Procs :
    (IsRM(p) /\ Ended(p)) => ((loc[p].inserted # 0) <=> loc[p].written)

\* C4: when the NProcs concurrent sales of size SalesQty have all ended, each
\* has succeeded, the product holds Q0 - NProcs * SalesQty, and the ledger
\* holds exactly NProcs more rows for it.
C4_NoLostUpdates ==
  (\A p \in Procs : Ended(p)) =>
     /\ \A p \in Procs : pc[p] = "done"
     /\ \A p \in Procs :
          /\ products[req[p].productId].quantity
               = snap.products[req[p].productId].quantity - NProcs * SalesQty
          /\ Cardinality(RowsOf(req[p].productId))
               = Cardinality({i \in 1..Len(snap.ledger) :
                                snap.ledger[i].productId = req[p].productId}) + NProcs

\* a call has read the product's quantity and not yet written the new one
InWindow(p) ==
  IsRM(p) /\ pc[p] \in {"rm_insert", "rm_readBack", "rm_updFind", "rm_updWrite"}

\* C5: no two recordMovement calls on one product are both between their
\* read of the quantity and their write of it.
C5_SerializedPerProduct ==
  \A p, o \in Procs :
    (p # o /\ InWindow(p) /\ InWindow(o)) => req[p].productId # req[o].productId

\* C6: whenever no call is in progress, each product has as many ledger rows
\* as quantity changes applied to it by movements, whichever entry point
\* recorded them.
C6_OneRowPerAppliedMovement ==
  (\A p \in Procs : pc[p] = "idle") =>
     \A id \in DOMAIN products : Cardinality(RowsOf(id)) = applied[id]

\* C7: a successful purchase or return of q on a product at Q leaves it at
\* Q + q; a successful sale or damage of q leaves it at Q - q.
C7_DeltaTypes ==
  \A p \in SeqProcs :
    (IsRM(p) /\ pc[p] = "done") =>
      LET id == req[p].productId
          Q == snap.products[id].quantity
      IN /\ Inbound(req[p].movementType) => products[id].quantity = Q + req[p].quantity
         /\ Outbound(req[p].movementType) =>
              /\ req[p].quantity <= Q
              /\ products[id].quantity = Q - req[p].quantity

\* a return of 1 has taken a product from 1 to 2
C7_Witness ==
  /\ pc[1] = "done" /\ IsRM(1) /\ req[1].movementType = "return"
  /\ req[1].quantity = 1
  /\ snap.products[req[1].productId].quantity = 1
  /\ products[req[1].productId].quantity = 2

\* C8: a successful adjustment with input q leaves the product at exactly q,
\* whatever it held before, and the row the call inserted is an adjustment
\* row of that product whose quantity is q.
C8_AdjustmentIsAbsolute ==
  \A p \in SeqProcs :
    (IsRM(p) /\ pc[p] = "done" /\ req[p].movementType = "adjustment") =>
      /\ products[req[p].productId].quantity = req[p].quantity
      /\ loc[p].inserted \in 1..Len(ledger)
      /\ ledger[loc[p].inserted] = [productId |-> req[p].productId,
                                    movementType |-> "adjustment",
                                    quantity |-> req[p].quantity]

\* an adjustment to 1 on a product that held 2
C8_Witness ==
  /\ pc[1] = "done" /\ IsRM(1) /\ req[1].movementType = "adjustment"
  /\ req[1].quantity = 1
  /\ snap.products[req[1].productId].quantity = 2
  /\ products[req[1].productId].quantity = 1

\* C9: the record a successful recordMovement returns has the productId,
\* movementType and quantity of the row this call inserted.
C9_ReturnsCreatedRow ==
  \A p \in SeqProcs :
    (IsRM(p) /\ pc[p] = "done") =>
      /\ ledger[loc[p].movement].productId = req[p].productId
      /\ ledger[loc[p].movement].movementType = req[p].movementType
      /\ ledger[loc[p].movement].quantity = ledger[loc[p].inserted].quantity

\* C10: recordMovement on an unknown product id fails with the not-found
\* error; on a known product with quantity <= 0 or an unrecognized type it
\* fails with the invalid-argument error (in both cases with the storage
\* error instead when the product lookup itself fails); an input the router
\* schema rejects fails as a bad request.  None of these calls gets past its
\* first step and none changes a product or the ledger.
C10_RejectedInputIsNoOp ==
  \A p \in SeqProcs :
    /\ (IsRM(p) /\ req[p].productId \notin ExistingIds) =>
         /\ pc[p] \in {"rm_find", "failed"}
         /\ DbUnchanged
         /\ pc[p] = "failed" => err[p].kind \in {"NotFound", "StorageFailure"}
    /\ ( /\ IsRM(p)
         /\ req[p].productId \in ExistingIds
         /\ (req[p].quantity <= 0 \/ req[p].movementType \notin MovementTypes) ) =>
         /\ pc[p] \in {"rm_find", "failed"}
         /\ DbUnchanged
         /\ pc[p] = "failed" => err[p].kind \in {"InvalidArgument", "StorageFailure"}
    /\ req[p].op = "router.record" =>
         /\ pc[p] = "failed"
         /\ err[p].kind = "BadRequest"
         /\ DbUnchanged

\* a movement of quantity 0 on a known product was refused as an invalid
\* argument, with a ledger that already has a row
C10_Witness ==
  /\ pc[1] = "failed" /\ IsRM(1)
  /\ req[1].productId \in ExistingIds /\ req[1].quantity = 0
  /\ err[1].kind = "InvalidArgument"
  /\ Len(ledger) >= 1

\* ------------------------------------------------- alert evaluator claims
IsChk(p) == req[p].op = "checkAndAlertStockLevel"

\* a checkAndAlertStockLevel call has read an existing product and resolved
Evaluated(p) ==
  /\ IsChk(p) /\ pc[p] = "done"
  /\ req[p].productId \in DOMAIN products
  /\ loc[p].logged # "StorageFailure"

Tier(alert) ==
  IF alert.type = "stock_critical" THEN "Critical"
  ELSE IF alert.type = "stock_low" THEN "Warning"
  ELSE "none"

\* C11: the evaluator classifies by first match: quantity 0 is Critical with
\* the out-of-stock title whatever the minStockLevel; otherwise quantity below
\* a fifth of minStockLevel is Critical; otherwise quantity below
\* minStockLevel is Warning; otherwise nothing is emitted.
C11_FirstMatchOrder ==
  \A p \in SeqProcs :
    Evaluated(p) =>
      LET Q == products[req[p].productId].quantity
          minLevel == products[req[p].productId].minStockLevel
          alert == loc[p].alert
      IN /\ Q = 0 => /\ Tier(alert) = "Critical"
                     /\ alert.title = "CRITICAL: {name} Out of Stock!"
         /\ (Q # 0 /\ 5 * Q < minLevel) => Tier(alert) = "Critical"
         /\ (Q # 0 /\ 5 * Q >= minLevel /\ Q < minLevel) => Tier(alert) = "Warning"
         /\ (Q # 0 /\ Q >= minLevel) => alert = NoAlert
         /\ alert # NoAlert => alert.subject = req[p].productId

\* an empty product with a positive minStockLevel, which also satisfies both
\* later conditions, was reported as out of stock to the attached server
C11_Witness ==
  /\ Evaluated(1)
  /\ products[req[1].productId].quantity = 0
  /\ products[req[1].productId].minStockLevel >= 1
  /\ loc[1].alert = CriticalStockAlert(req[1].productId)
  /\ loc[1].alert \in emitted

\* C12 as stated: every product with minStockLevel > 0 whose quantity is
\* minStockLevel - 1 gets the Warning tier.
C12_OneBelowMinimumIsWarning ==
  \A p \in SeqProcs :
    Evaluated(p) =>
      LET Q == products[req[p].productId].quantity
          minLevel == products[req[p].productId].minStockLevel
      IN (minLevel > 0 /\ Q = minLevel - 1) => Tier(loc[p].alert) = "Warning"

\* C12, amended: a product with minStockLevel > 1 whose quantity is
\* minStockLevel - 1 gets the low-stock alert carrying that quantity and
\* that minimum; with minStockLevel = 1 the quantity is 0 and the product is
\* reported Critical, out of stock.
C12_OneBelowMinimumAboveOne ==
  \A p \in SeqProcs :
    Evaluated(p) =>
      LET id == req[p].productId
          Q == products[id].quantity
          minLevel == products[id].minStockLevel
      IN /\ (minLevel > 1 /\ Q = minLevel - 1) =>
              /\ Tier(loc[p].alert) = "Warning"
              /\ loc[p].alert = LowStockAlert(id, Q, minLevel)
         /\ (minLevel = 1 /\ Q = 0) => loc[p].alert = CriticalStockAlert(id)

\* a product one unit below a minimum of at least 2 had its low-stock alert
\* broadcast
C12_Witness ==
  /\ Evaluated(1)
  /\ products[req[1].productId].minStockLevel >= 2
  /\ products[req[1].productId].quantity = products[req[1].productId].minStockLevel - 1
  /\ Tier(loc[1].alert) = "Warning"
  /\ loc[1].alert \in emitted

\* C13 as stated: every product whose quantity equals its minStockLevel
\* gets no alert.
C13_AtMinimumNoAlert ==
  \A p \in SeqProcs :
    Evaluated(p) =>
      (products[req[p].productId].quantity = products[req[p].productId].minStockLevel
         => loc[p].alert = NoAlert)

\* C13, amended: a product whose quantity equals a minStockLevel > 0 gets no
\* alert; a product with quantity 0 and minStockLevel 0 is reported
\* Critical, out of stock.
C13_AtPositiveMinimumNoAlert ==
  \A p \in SeqProcs :
    Evaluated(p) =>
      LET id == req[p].productId
          Q == products[id].quantity
          minLevel == products[id].minStockLevel
      IN /\ (Q = minLevel /\ minLevel > 0) =>
              /\ loc[p].alert = NoAlert
              /\ \A e \in emitted : e.subject # id
         /\ (Q = minLevel /\ minLevel = 0) => loc[p].alert = CriticalStockAlert(id)

\* a product holding exactly its positive minimum was evaluated with the
\* server attached and nothing was emitted
C13_Witness ==
  /\ Evaluated(1)
  /\ products[req[1].productId].minStockLevel >= 1
  /\ products[req[1].productId].quantity = products[req[1].productId].minStockLevel
  /\ loc[1].alert = NoAlert
  /\ io /\ emitted = {}

\* C14: a product still in stock whose quantity is floor(0.2 *
\* minStockLevel) - 1 is classified Critical, and the alert decided for it
\* differs in event or message from the one the same product gets at
\* quantity 0.
C14_CriticallyLowIsDistinct ==
  \A p \in SeqProcs :
    Evaluated(p) =>
      LET id == req[p].productId
          Q == products[id].quantity
          minLevel == products[id].minStockLevel
          outOfStock == AlertFor(id, 0, minLevel)
      IN (Q >= 1 /\ Q = (minLevel \div 5) - 1) =>
           /\ Tier(loc[p].alert) = "Critical"
           /\ \/ loc[p].alert.event # outOfStock.event
              \/ loc[p].alert.message # outOfStock.message

\* C15: by the time the handler of a successful recordMovement call returns
\* to its caller, it has invoked the alert evaluator for the product.
C15_EvaluatedAfterEveryMovement ==
  [][\A p \in Procs :
       (IsRM(p) /\ pc[p] = "done" /\ pc'[p] = "idle") => loc[p].evaluated]_vars

\* C16: when an evaluation that decided on an alert has resolved without a
\* logged error, the notifications table holds a row of the alert's type for
\* that product.
C16_AlertIsPersisted ==
  \A p \in SeqProcs :
    (Evaluated(p) /\ loc[p].alert # NoAlert /\ loc[p].logged = "none") =>
      \E i \in 1..Len(notifications) :
        /\ notifications[i].type = loc[p].alert.type
        /\ notifications[i].productId = loc[p].alert.subject

IsRA(p) == req[p].op = "recordMovementAndAlert"

\* C17: a checkAndAlertStockLevel or recordMovementAndAlert call never ends
\* in an error, whatever its product id, movement type, storage outcome or
\* broadcast outcome; an evaluation whose product does not exist or whose
\* lookup failed decided on no alert.
C17_AlertServiceContainsFailures ==
  \A p \in SeqProcs :
    (IsChk(p) \/ IsRA(p)) =>
      /\ pc[p] # "failed"
      /\ err[p] = NoErr
      /\ ( /\ IsChk(p) /\ pc[p] = "done"
           /\ (req[p].productId \notin DOMAIN products \/ loc[p].logged = "StorageFailure") )
         => loc[p].alert = NoAlert

\* a recordMovementAndAlert damage call resolved after a storage call that
\* followed its insert had failed
C17_Witness ==
  /\ IsRA(1) /\ pc[1] = "done"
  /\ req[1].movementType = "damage"
  /\ loc[1].logged = "StorageFailure"
  /\ loc[1].inserted # 0

\* C18: when a recordMovementAndAlert call has resolved without a logged
\* error, products and ledger are what recordMovement with the same
\* arguments makes of the database the call started from: for an accepted
\* movement the new quantity and the appended row, followed by an
\* evaluation; for a rejected one no change.
C18_WrapperEqualsRecordMovement ==
  \A p \in SeqProcs :
    (IsRA(p) /\ pc[p] = "done" /\ loc[p].logged = "none") =>
      LET id == req[p].productId
          t == req[p].movementType
          q == req[p].quantity
      IN IF id \in DOMAIN snap.products /\ ~QuantityInvalid(q) /\ ~TypeInvalid(t)
            /\ ~InsufficientStock(NewQuantity(snap.products[id].quantity, t, q))
         THEN LET newQuantity == NewQuantity(snap.products[id].quantity, t, q) IN
                /\ products = [snap.products EXCEPT ![id].quantity = newQuantity]
                /\ ledger = Append(snap.ledger, InsertData(id, t, q, newQuantity))
                /\ loc[p].evaluated
         ELSE DbUnchanged

IsUpd(p) == req[p].op = "updateProduct"

\* C19: while and after an updateProduct call runs, as long as no ledger row
\* has been written since the call started, every product's quantity is what
\* it was when the call started.
C19_UpdateLeavesQuantity ==
  \A p \in SeqProcs :
    (IsUpd(p) /\ ledger = snap.ledger) =>
      \A id \in DOMAIN products : products[id].quantity = snap.products[id].quantity

BroadcastMethods ==
  {"broadcastLowStockAlert", "broadcastCriticalStockAlert", "sendPrivateNotification",
   "broadcastProductUpdate", "broadcastSupplierUpdate", "broadcastStockMovement",
   "notifyAdminsAboutCriticalEvent", "broadcastSystemMessage"}

NoSession == \A s \in SocketIds : ~sockets[s].connected

\* C20: a call of any of the eight broadcast methods made while no socket
\* server is attached or no session is connected resolves without error and
\* leaves the session registry, the sockets' rooms, the products, the ledger
\* and the notifications as they were; with no server attached nothing is
\* emitted either.
C20_BroadcastIsSilentNoOp ==
  [][\A p \in SeqProcs :
       ( /\ pc[p] = "idle"
         /\ req'[p].op \in BroadcastMethods
         /\ (~io \/ NoSession) )
       => /\ pc'[p] = "done"
          /\ err'[p] = NoErr
          /\ UNCHANGED <<connectedUsers, sockets, products, ledger, notifications>>
          /\ ~io => emitted' = emitted]_vars

\* a private notification was sent and resolved while no server was attached
C20_Witness ==
  /\ pc[1] = "done"
  /\ req[1].op = "sendPrivateNotification"
  /\ ~io /\ NoSession
  /\ emitted = {}

\* ------------------------------------------- ordering and concurrency claims
\* C26: under every interleaving of concurrent recordMovement calls, no
\* product's quantity is negative, and every call that has passed its stock
\* check is about to write a quantity >= 0.
C26_ConcurrentNonNegative ==
  /\ \A id \in DOMAIN products : products[id].quantity >= 0
  /\ \A p \in Procs : (IsRM(p) /\ InWindow(p)) => loc[p].newQuantity >= 0

\* two sales on one product were both past their stock check at once, and
\* the first has written the product down to 0
C26_Witness ==
  /\ IsRM(1) /\ IsRM(2)
  /\ req[1].productId = req[2].productId
  /\ req[1].movementType = "sale" /\ req[2].movementType = "sale"
  /\ pc[1] = "rm_updRead" /\ InWindow(2)
  /\ products[req[1].productId].quantity = 0

\* C28: in every state, a recordMovement call that has written the quantity
\* has inserted its ledger row, for that product, before; so no product has
\* had more quantity writes by movements than it has ledger rows.
C28_RowBeforeQuantity ==
  /\ \A p \in Procs :
       (IsRM(p) /\ loc[p].written) =>
         /\ loc[p].inserted \in 1..Len(ledger)
         /\ ledger[loc[p].inserted].productId = req[p].productId
  /\ \A id \in DOMAIN products : applied[id] <= Cardinality(RowsOf(id))

\* a call failed after its insert and before its write: the row is there,
\* the quantity write is not
C28_Witness ==
  /\ IsRM(1) /\ pc[1] = "failed"
  /\ loc[1].inserted # 0 /\ ~loc[1].written
  /\ applied[req[1].productId] < Cardinality(RowsOf(req[1].productId))

\* C29: an adjustment on an existing product never fails with the
\* insufficient-stock error and a successful one leaves the quantity >= 1; a
\* recordMovement call that has written quantity 0 is a sale or damage of
\* exactly the quantity the product held.
C29_ZeroOnlyByOutbound ==
  \A p \in SeqProcs :
    /\ (IsRM(p) /\ req[p].movementType = "adjustment"
          /\ req[p].productId \in ExistingIds) =>
         /\ err[p].kind # "InsufficientStock"
         /\ pc[p] = "done" => products[req[p].productId].quantity >= 1
    /\ (IsRM(p) /\ loc[p].written /\ products[req[p].productId].quantity = 0) =>
         /\ Outbound(req[p].movementType)
         /\ req[p].quantity = snap.products[req[p].productId].quantity

\* a damage of everything the product held has emptied it
C29_Witness ==
  /\ IsRM(1) /\ pc[1] = "done" /\ req[1].movementType = "damage"
  /\ req[1].quantity = snap.products[req[1].productId].quantity
  /\ products[req[1].productId].quantity = 0

\* ------------------------------------------------------------ totals claims
IsTot(p) == req[p].op = "getMovementTotals"

\* sum of the quantities of the ledger rows whose ids are in S
RECURSIVE SumQty(_)
SumQty(S) ==
  IF S = {} THEN 0
  ELSE LET i == CHOOSE x \in S : TRUE IN ledger[i].quantity + SumQty(S \ {i})

RowsOfTypes(productId, types) ==
  {i \in RowsOf(productId) : ledger[i].movementType \in types}

\* C24: the step in which getMovementTotals answers changes no table, and
\* its answer is totalIn = the sum over the product's purchase and return
\* rows, totalOut = the sum over its sale and damage rows; adjustment rows
\* are in neither.
C24_TotalsReadOnlyAndExact ==
  [][\A p \in SeqProcs :
       (IsTot(p) /\ pc[p] = "t_query" /\ pc'[p] = "done") =>
         /\ UNCHANGED <<products, ledger, notifications, applied>>
         /\ loc'[p].totals.totalIn = SumQty(RowsOfTypes(req[p].productId, {"purchase", "return"}))
         /\ loc'[p].totals.totalOut = SumQty(RowsOfTypes(req[p].productId, {"sale", "damage"}))]_vars

\* the totals of a product with a purchase row and an adjustment row were
\* returned: only the purchase counts
C24_Witness ==
  /\ IsTot(1) /\ pc[1] = "done"
  /\ RowsOfTypes(req[1].productId, {"adjustment"}) # {}
  /\ RowsOfTypes(req[1].productId, {"purchase"}) # {}
  /\ loc[1].totals.totalIn = SumQty(RowsOfTypes(req[1].productId, {"purchase"}))
  /\ loc[1].totals.totalOut = 0

\* every row in the ledger is a purchase, return, sale or damage whose
\* quantity change was applied
OnlyAppliedDeltas ==
  /\ \A i \in 1..Len(ledger) : ledger[i].movementType # "adjustment"
  /\ \A id \in DOMAIN products : applied[id] = Cardinality(RowsOf(id))

\* C27: after a sequential history of successful purchase, return, sale and
\* damage movements from quantity Q0 and an empty ledger, the totals
\* getMovementTotals returns for a product satisfy quantity = Q0 + totalIn -
\* totalOut.
C27_LedgerReconciles ==
  \A p \in SeqProcs :
    (IsTot(p) /\ pc[p] = "done" /\ req[p].productId \in DOMAIN products
       /\ OnlyAppliedDeltas) =>
      products[req[p].productId].quantity
        = snap.products[req[p].productId].quantity
            + loc[p].totals.totalIn - loc[p].totals.totalOut

\* the totals were returned after a return and a sale on a product
C27_Witness ==
  /\ IsTot(1) /\ pc[1] = "done" /\ OnlyAppliedDeltas
  /\ RowsOfTypes(req[1].productId, {"return"}) # {}
  /\ RowsOfTypes(req[1].productId, {"sale"}) # {}
  /\ loc[1].totals.totalIn > 0 /\ loc[1].totals.totalOut > 0

\* ------------------------------------------------------------ notification claims
\* C21: a notification is created with read = "false", and no step of
\* markAsRead, markAllAsRead or create turns the flag of an existing
\* notification from "true" back to "false".
C21_ReadIsMonotonic ==
  [][/\ \A i \in 1..Len(notifications) :
          (Exists(i) /\ notifications[i].read = "true" /\ notifications'[i].type # "deleted")
            => notifications'[i].read = "true"
     /\ \A i \in (Len(notifications) + 1)..Len(notifications') :
          notifications'[i].read = "false"]_vars

\* a row already read went through markAllAsRead of its user while a later
\* row of that user was flipped
C21_Witness ==
  /\ req[1].op = "markAllAsRead" /\ pc[1] = "done"
  /\ Len(notifications) = 2
  /\ \A i \in 1..2 : notifications[i].userId = req[1].userId /\ notifications[i].read = "true"

\* C22: a delete request made by a user removes no notification whose
\* target user is somebody else.
C22_DeleteOnlyByOwner ==
  [][\A p \in SeqProcs, i \in 1..Len(notifications) :
       (/\ req[p].op = "deleteNotification"
        /\ Exists(i) /\ notifications'[i].type = "deleted"
        /\ pc[p] = "nr_delete" /\ pc'[p] = "done")
         => notifications[i].userId = req[p].userId]_vars

\* ------------------------------------------------------------ permission claims
IsPerm(p) == req[p].op \in {"hasPermission", "requirePermission"}

\* the permissions the matrix is said to give on products
OnProducts(role) ==
  CASE role = "viewer" -> {"view"}
    [] role = "manager" -> {"view", "create", "edit"}
    [] role = "admin" -> {"view", "create", "edit", "delete"}

\* an independent reading of the answer: hasPermission returned true, or
\* requirePermission returned without throwing
Granted(p) ==
  IF req[p].op = "hasPermission" THEN loc[p].allowed ELSE pc[p] = "done"

IsSweep(p) == req[p].op = "checkAllProductsStockLevels"

BelowThreshold(id) == products[id].quantity < products[id].minStockLevel

AlertSentFor(p, id) == \E a \in loc[p].sweep.sent : a.subject = id

C30_PrivateOnlyToCurrentUser ==
  [][\A p \in SeqProcs :
       (pc[p] = "idle" /\ pc'[p] = "done" /\ req'[p].op = "sendPrivateNotification") =>
         \A s \in loc'[p].recipients :
           /\ sockets[s].connected
           /\ connectedUsers[s].userId = loc'[p].alert.to]_vars

====
